---- MODULE Spec2Model ----
(***************************************************************************)
(* Measurement recipes of DasMessProgramm: the _measure procedures of the  *)
(* source-meter voltage sweeps (ramp, hysteresis, multi-leg field), of the *)
(* field phase sweep I(B) and of the temperature sweeps, run against       *)
(* instruments whose calls may raise and against an external controller    *)
(* that may set the stop flag at any moment.                               *)
(*                                                                         *)
(* Units: voltages are integers (max_voltage is chosen so that every leg   *)
(* divides it evenly), magnetic fields are in units of 0.0005 T (so the    *)
(* tolerance 0.001 T is 2), temperatures T1 in K, window readings T3 in mK.*)
(***************************************************************************)
EXTENDS Integers, Sequences, FiniteSets, TLC

\* ------------------------------------------------------------------ bounds
\* largest number_of_points of a voltage leg
MaxPoints == 10
\* largest loop_count of the hysteresis sweep
MaxLoops == 1
\* longest list of field set-points of the multi-leg sweep
MaxFields == 2
\* lines of the data file of an end-point sweep that are kept (its first ones)
MaxTicks == 1
\* largest number_of_points of the multi-leg field sweep
MaxLegPoints == 3
\* changes of value of the T3 reading inside one convergence window
MaxT3Changes == 1

\* ------------------------------------------------------- program constants
\* SMU2ProbeHSweep2636AIvB.State
START == 0
GOING_UP == 1
HALTING_UP == 2
GOING_DOWN == 3
HALTING_DOWN == 4
GOING_BACK_UP == 5
HALTING_UP2 == 6
GOING_ZERO == 7
DONE == 8

\* field tolerance 0.001 T, in units of 0.0005 T
Eps == 2
\* max_field of the phase sweep, in units of 0.0005 T (0.0015 T)
max_field == 3

\* _check_temp_reached: window capacity, fast-path band (K) and the stability rate
\* 0.1/120 K per sample, kept as the fraction StabilityNum/StabilityDen in mK
maximal_list_len == 10
Band == 1
StabilityNum == 100
StabilityDen == 120

\* no T1 reading taken by the detector on this tick
NoReading == -1

Abs(x) == IF x < 0 THEN -x ELSE x

RECURSIVE Gcd(_, _)
Gcd(a, b) == IF b = 0 THEN a ELSE Gcd(b, a % b)

RECURSIVE LcmUpTo(_)
LcmUpTo(n) == IF n <= 1 THEN 1 ELSE LET m == LcmUpTo(n - 1) IN (m * n) \div Gcd(m, n)

\* max_voltage: a value every leg divides evenly, so that linspace is exact
max_voltage == LcmUpTo(MaxPoints)

\* --------------------------------------------------------------- variants
SweepVariants == {"Ramp", "ESweep"}
MagnetVariants == {"IvB", "IvU"}
TempVariants == {"IvT", "SRS", "ZvT"}
EndPointVariants == {"IvB"} \cup TempVariants
Variants == SweepVariants \cup MagnetVariants \cup TempVariants

\* the classes whose constructor validates its parameters
ValidatingVariants == MagnetVariants \cup TempVariants

\* the classes that drive a source-meter (arm / set_voltage / disarm)
HasSourceMeter(v) == v \in {"Ramp", "ESweep", "IvB", "IvU", "IvT"}

\* ----------------------------------------------------- trajectory generator
\* evenly spaced values that stop one step short of stop (np.arange-like)
linspace_Exclusive(start, stop, num) ==
    [i \in 1..num |-> start + ((i - 1) * (stop - start)) \div num]

\* np.linspace(start, stop, num): num evenly spaced values, stop included;
\* num = 1 yields the start value only
linspace(start, stop, num) ==
    [i \in 1..num |-> IF num = 1 THEN start
                      ELSE start + ((i - 1) * (stop - start)) \div (num - 1)]

\* np.tile(a, reps)
RECURSIVE tile(_, _)
tile(a, reps) == IF reps <= 0 THEN << >> ELSE a \o tile(a, reps - 1)

\* a hysteresis trajectory without its final descent
ESweep_setup_voltage_space_NoDescent(n, loops) ==
    linspace(0, max_voltage, n)
        \o tile(linspace(max_voltage, 0, n) \o linspace(0, -1 * max_voltage, n)
                    \o linspace(-1 * max_voltage, 0, n) \o linspace(0, max_voltage, n), loops)

\* a hysteresis trajectory that goes from +max to -max and back in one leg each
ESweep_setup_voltage_space_Direct(n, loops) ==
    linspace(0, max_voltage, n)
        \o tile(linspace(max_voltage, -1 * max_voltage, n)
                    \o linspace(-1 * max_voltage, max_voltage, n), loops)
        \o linspace(max_voltage, 0, n)

\* SMU2ProbeESweep2636A._setup_voltage_space
ESweep_setup_voltage_space(n, loops) ==
    LET zero_to_max == linspace(0, max_voltage, n)
        max_to_zero == linspace(max_voltage, 0, n)
        zero_to_min == linspace(0, -1 * max_voltage, n)
        min_to_zero == linspace(-1 * max_voltage, 0, n)
        middle_loop == tile(max_to_zero \o zero_to_min \o min_to_zero \o zero_to_max, loops)
    IN  zero_to_max \o middle_loop \o max_to_zero

\* a multi-leg ramp that only goes up
IvU_setup_voltage_space_UpOnly(n) == linspace(0, max_voltage, n)

\* SMU2ProbeHSweep2636AIvU._setup_voltage_space
IvU_setup_voltage_space(n) ==
    linspace(0, max_voltage, n) \o linspace(max_voltage, 0, n)

\* the sequence the for loop of the sweep iterates over; sign: the sign of the
\* self._max_voltage of the ramp (a target below the start ramps downwards)
voltage_space(v, n, loops, sign) ==
    CASE v = "Ramp"   -> linspace(0, sign * max_voltage, n)
      [] v = "ESweep" -> ESweep_setup_voltage_space(n, loops)
      [] v = "IvU"    -> IvU_setup_voltage_space(n)
      [] OTHER        -> << >>

\* ------------------------------------------------------------------ state
VARIABLES
    variant,            \* the measurement class that runs
    polarity,           \* sign of self._max_voltage (ramp: 1 or -1)
    number_of_points,   \* self._number_of_points
    loop_count,         \* self._loop_count
    fields,             \* self._fields
    temperature_end,    \* self._temperature_end
    iv_voltage,         \* self._voltage of the I(T) sweep
    sweep_rate,         \* self._sweep_rate (K/min)
    pc,                 \* position of the measurement thread in _measure
    idx,                \* 1-based position of the for loop in voltage_space
    field_idx,          \* 1-based position of the for loop in fields
    should_stop,        \* self._should_stop (threading.Event)
    stop_by,            \* who set the flag first
    stop_at,            \* trajectory steps begun when the controller set it
    stop_in_flight,     \* a trajectory step (set-point, sample) was in flight then
    armed,              \* source-meter output armed
    voltage,            \* last source voltage commanded
    smu_cmds,           \* the last two calls the source-meter carried out, in order
    records,            \* lines appended to the data file (end-point sweeps: the first MaxTicks)
    tick_acq,           \* outcome of the latest _acquire_data_point
    aborted,            \* number of emit_aborted() calls
    teardowns,          \* number of _deinitialize_device() calls
    raised_by,          \* the call whose exception left _measure
    exit_by,            \* why the loop was left
    state,              \* self._state of the phase machine
    last_field,         \* self._last_field
    reading,            \* value returned by the latest get_field() of the phase machine or
                        \* of the field poll in flight (_goto_field_and_stabilize, teardown)
    visited,            \* the values self._state has taken, in order
    mag_target,         \* last target field commanded to the magnet
    mag_mode,           \* last sweep mode commanded to the magnet
    sweep_running,      \* temperature sweep of the ITC started and not stopped
    set_point,          \* last temperature set-point written by the orchestrator
    last_temperatures,  \* self._last_temperatures
    tick_T1,            \* T1 as read by _check_temp_reached on the tick that just ended
    notified,           \* the messages send_meassage_telegram was called with, in order
    sweep_starts,       \* number of start_temperature_sweep() calls
    leg_failed,         \* a _sweep_voltage call of the multi-leg sweep ended in the except clause
    pid_toggled_at,     \* time() of the latest PID toggle cycle (NoReading: none yet)
    tick_pid,           \* <<T1, time()>> of the toggle cycle of this tick, << >> without one
    emitted,            \* emit_data() calls for the samples that are on file
    tick_sens           \* <<index>> written to the lock-in by _check_sensitivitiy on this
                        \* tick, << >> without a write

cfg == <<variant, polarity, number_of_points, loop_count, fields, temperature_end, iv_voltage,
         sweep_rate>>
ctl == <<should_stop, stop_by, stop_at, stop_in_flight>>
smu == <<armed, voltage, smu_cmds>>
sink == <<records, tick_acq, aborted>>
magnet == <<state, last_field, reading, visited, mag_target, mag_mode>>
itc == <<sweep_running, set_point, last_temperatures>>
run == <<pc, idx, field_idx, teardowns, raised_by, exit_by>>
pid == <<pid_toggled_at, tick_pid>>
acq == <<emitted, tick_sens>>
ext == <<pid, acq>>
aux == <<tick_T1, notified, sweep_starts, leg_failed, ext>>
vars == <<cfg, ctl, smu, sink, magnet, itc, run, aux>>

\* ---------------------------------------------------------------- inputs
\* field set-points a fields list is made of
FieldSetPoints == {0, max_field}
FieldLists == UNION {[1..n -> FieldSetPoints] : n \in 0..MaxFields}
\* values get_field() can return
FieldReadings == (-max_field)..max_field
\* end temperatures (K) accepted by the constructors
TempEnds == {2, 18}
\* sweep rates (K/min) the constructors accept: `0 <= sweep_rate <= 2.5`
SweepRates == {0, 1}
\* T1 readings (K) around the end temperature: on either edge of the band of the
\* detector and just outside it
T1Readings(end) == {t \in {end - 2, end - 1, end + 1, end + 2} : t >= 0}
\* T3 readings (mK): a base value and one 17 mK above it
T3Readings == {0, 17}

Init ==
    /\ variant \in Variants
    /\ polarity \in (IF variant = "Ramp" THEN {1, -1} ELSE {1})
    /\ number_of_points \in (CASE variant \in SweepVariants -> 1..MaxPoints
                               [] variant = "IvU" -> 1..MaxLegPoints
                               [] OTHER -> {1})
    /\ loop_count \in (IF variant = "ESweep" THEN 0..MaxLoops ELSE {0})
    /\ fields \in (IF variant = "IvU" THEN FieldLists ELSE {<< >>})
    /\ temperature_end \in (IF variant \in TempVariants THEN TempEnds ELSE {0})
    /\ iv_voltage \in (IF variant = "IvT" THEN {0, max_voltage} ELSE {0})
    /\ pc = "init"
    /\ idx = 1
    /\ field_idx = 1
    \* the constructors that validate their parameters call abort() and return
    \* early when they reject one
    /\ should_stop \in (IF variant \in ValidatingVariants THEN BOOLEAN ELSE {FALSE})
    /\ stop_by = IF should_stop THEN "constructor" ELSE "none"
    /\ sweep_rate \in (IF variant \in TempVariants /\ ~should_stop THEN SweepRates ELSE {1})
    /\ stop_at = -1
    /\ stop_in_flight = FALSE
    /\ armed = FALSE
    /\ voltage = 0
    /\ smu_cmds = << >>
    /\ records = << >>
    /\ tick_acq = "none"
    /\ aborted = 0
    /\ teardowns = 0
    /\ raised_by = "none"
    /\ exit_by = "none"
    /\ state = START
    /\ last_field = 0
    /\ reading = 0
    /\ visited = <<START>>
    /\ mag_target = 0
    /\ mag_mode = "NONE"
    /\ sweep_running = FALSE
    /\ set_point = 0
    /\ last_temperatures = << >>
    /\ tick_T1 = NoReading
    /\ notified = << >>
    /\ sweep_starts = 0
    /\ leg_failed = FALSE
    /\ pid_toggled_at = NoReading
    /\ tick_pid = << >>
    /\ emitted = 0
    /\ tick_sens = << >>

space == voltage_space(variant, number_of_points, loop_count, polarity)

\* ------------------------------------------------------ external controller
\* abort(): another thread sets the stop flag; the measurement thread only polls it
SetStop ==
    /\ ~should_stop
    /\ pc \notin {"done", "raised"}
    /\ should_stop' = TRUE
    /\ stop_by' = "controller"
    /\ stop_at' = CASE variant \in EndPointVariants -> stop_at
                     [] pc \in {"set", "sample"} -> idx
                     [] OTHER -> idx - 1
    /\ stop_in_flight' = (pc \in {"set", "sample"} /\ variant \notin EndPointVariants)
    /\ UNCHANGED <<itc, cfg, aux, smu, sink, magnet, run>>

\* ------------------------------------------------------------ measurement
\* the call log of the source-meter after the calls cmds: its last two entries
Issue(log, cmds) ==
    LET all == log \o cmds IN
    IF Len(all) > 2 THEN SubSeq(all, Len(all) - 1, Len(all)) ELSE all

\* calls of _initialize_device that can raise, in call order
InitOutcomes(v) ==
    {"ok"} \cup (IF HasSourceMeter(v) THEN {"arm"} ELSE {})
           \cup (IF v \in MagnetVariants THEN {"mag_clear", "mag_heater"} ELSE {})

\* the attributes a constructor that returned early never created: the I(T) sweep
\* has no self._device, the other temperature sweeps no self._temperature_end
ReturnedEarly == stop_by = "constructor"

\* the statement of _measure that follows _initialize_device
AfterInit(v) ==
    CASE v \in SweepVariants -> "loop"
      [] v = "IvB"           -> "setv"
      [] v = "IvU"           -> "fields"
      [] OTHER               -> "start"

\* _write_header; _initialize_device: no try around it, an exception leaves _measure
Initialize ==
    /\ pc = "init"
    /\ \E outcome \in (IF variant = "IvT" /\ ReturnedEarly THEN {"no_device"}
                       ELSE InitOutcomes(variant)) :
        /\ armed' = (HasSourceMeter(variant) /\ outcome \notin {"arm", "no_device"})
        /\ smu_cmds' = IF HasSourceMeter(variant) /\ outcome \notin {"arm", "no_device"}
                        THEN Issue(smu_cmds, <<"arm">>) ELSE smu_cmds
        /\ mag_mode' = IF variant \in MagnetVariants /\ outcome \in {"ok", "mag_heater"}
                       THEN "HOLD" ELSE mag_mode
        /\ pc' = IF outcome = "ok" THEN AfterInit(variant) ELSE "raised"
        /\ raised_by' = IF outcome = "ok" THEN raised_by ELSE outcome
    /\ UNCHANGED <<itc, cfg, aux, ctl, voltage, sink, state, last_field, reading, visited, mag_target,
                   idx, field_idx, teardowns, exit_by>>

\* a loop head that never looks at the stop flag
LoopHead_NoStopCheck(i, n, stop) ==
    IF i > n THEN "exhausted" ELSE "step"

\* a loop head that looks at the stop flag on every other step only
LoopHead_EveryOtherStep(i, n, stop) ==
    IF i > n THEN "exhausted"
    ELSE IF stop /\ i % 2 = 1 THEN "stop"
    ELSE "step"

\* what the head of `for voltage in voltage_space:` and the stop check that opens
\* its body decide at position i of n, with the stop flag as given
LoopHead(i, n, stop) ==
    IF i > n THEN "exhausted"
    ELSE IF stop THEN "stop"
    ELSE "step"

\* head of `for voltage in voltage_space:` with `if should_stop: emit_aborted(); break`
SweepLoopCheck ==
    /\ pc = "loop"
    /\ variant \in SweepVariants \cup {"IvU"}
    /\ LET head == LoopHead(idx, Len(space), should_stop) IN
       /\ aborted' = IF head = "stop" THEN aborted + 1 ELSE aborted
       /\ IF head = "step"
          THEN pc' = "set" /\ UNCHANGED <<field_idx, exit_by>>
          ELSE IF variant = "IvU"
          THEN \* _sweep_voltage returns to the loop over the fields
               pc' = "fields" /\ field_idx' = field_idx + 1 /\ exit_by' = exit_by
          ELSE pc' = "teardown" /\ field_idx' = field_idx /\ exit_by' = head
    /\ UNCHANGED <<itc, cfg, aux, ctl, smu, records, tick_acq, magnet, idx, teardowns, raised_by>>

\* where an exception raised inside _sweep_voltage ends up: the multi-leg sweep
\* wraps _sweep_voltage in try/except Exception, the other sweeps do not
SweepFailureCaught(v) == v = "IvU"

\* self._device.set_voltage(voltage)
ApplySetPoint ==
    /\ pc = "set"
    /\ \E ok \in BOOLEAN :
        IF ok
        THEN /\ voltage' = space[idx]
             /\ smu_cmds' = Issue(smu_cmds, <<"set_voltage">>)
             /\ pc' = "sample"
             /\ UNCHANGED <<field_idx, raised_by, leg_failed>>
        ELSE /\ UNCHANGED <<voltage, smu_cmds>>
             /\ leg_failed' = (leg_failed \/ SweepFailureCaught(variant))
             /\ IF SweepFailureCaught(variant)
                THEN pc' = "fields" /\ field_idx' = field_idx + 1 /\ raised_by' = raised_by
                ELSE pc' = "raised" /\ field_idx' = field_idx /\ raised_by' = "set_voltage"
    /\ UNCHANGED <<itc, cfg, ext, tick_T1, notified, sweep_starts, ctl, armed, sink, magnet, idx,
                   teardowns, exit_by>>

\* a write that truncates the file first
WriteRecord_Truncating(file, line) == <<line>>

\* file_handle.write(line); file_handle.flush(): the file after the call
WriteRecord(file, line) == Append(file, line)

\* the line _acquire_data_point writes: the multi-leg sweep puts the field in front
\* of the voltage (the magnet was stabilised at the set-point fld before the leg)
Line(v, fld, volt) == IF v = "IvU" THEN <<fld, volt>> ELSE volt

\* outcomes of one _acquire_data_point / _measure_data_point call
AcquireOutcomes == {"ok", "ValueError", "Exception"}

\* the sample of one trajectory step (ramp: _measure_data_point and the write;
\* hysteresis: _acquire_data_point; multi-leg: the while True retry loop)
SweepSample ==
    /\ pc = "sample"
    /\ variant \in SweepVariants \cup {"IvU"}
    /\ \E outcome \in AcquireOutcomes :
        CASE outcome = "ok" ->
                /\ smu_cmds' = Issue(smu_cmds, <<"read">>)
                /\ records' = WriteRecord(records, Line(variant, mag_target, voltage))
                /\ tick_acq' = "ok"
                /\ idx' = idx + 1
                /\ pc' = "loop"
                /\ UNCHANGED <<field_idx, raised_by, leg_failed>>
          [] outcome = "ValueError" /\ variant = "IvU" ->
                \* except ValueError: pass -- the same step is sampled again
                /\ tick_acq' = "failed"
                /\ UNCHANGED <<records, idx, pc, field_idx, raised_by, leg_failed, smu_cmds>>
          [] OTHER ->
                /\ tick_acq' = "failed"
                /\ UNCHANGED <<records, idx, smu_cmds>>
                /\ leg_failed' = (leg_failed \/ SweepFailureCaught(variant))
                /\ IF SweepFailureCaught(variant)
                   THEN pc' = "fields" /\ field_idx' = field_idx + 1 /\ raised_by' = raised_by
                   ELSE pc' = "raised" /\ field_idx' = field_idx /\ raised_by' = "read"
    /\ UNCHANGED <<itc, cfg, ext, tick_T1, notified, sweep_starts, ctl, armed, voltage, aborted,
                   magnet, teardowns, exit_by>>

\* ------------------------------------------------- multi-leg field sweep
\* head of `for field in self._fields:` with its stop check, then the two magnet
\* commands that open _goto_field_and_stabilize
FieldLoop ==
    /\ pc = "fields"
    /\ IF field_idx > Len(fields)
       THEN /\ pc' = "teardown"
            /\ exit_by' = "exhausted"
            /\ UNCHANGED <<mag_target, mag_mode, raised_by>>
       ELSE IF should_stop
       THEN /\ pc' = "teardown"
            /\ exit_by' = "stop"
            /\ UNCHANGED <<mag_target, mag_mode, raised_by>>
       ELSE \E failing \in 0..2 :
            /\ mag_target' = IF failing = 1 THEN mag_target ELSE fields[field_idx]
            /\ mag_mode' = IF failing = 0 THEN "TO_SET_POINT" ELSE mag_mode
            /\ pc' = IF failing = 0 THEN "goto" ELSE "raised"
            /\ raised_by' = IF failing = 0 THEN raised_by ELSE "magnet"
            /\ exit_by' = exit_by
    /\ UNCHANGED <<itc, cfg, aux, ctl, smu, sink, state, last_field, reading, visited, idx, field_idx, teardowns>>

\* a poll that takes the first reading for the set-point
FieldReached_FirstPoll(current_field, field) == TRUE

\* `if abs(current_field - field) < 0.001: field_reached = True`
FieldReached(current_field, field) == Abs(current_field - field) < Eps

\* one pass of `while not field_reached:` in _goto_field_and_stabilize
GotoField ==
    /\ pc = "goto"
    /\ \E ok \in BOOLEAN :
        IF ok
        THEN \E current_field \in FieldReadings :
                /\ reading' = current_field
                /\ pc' = IF FieldReached(current_field, fields[field_idx]) THEN "settle" ELSE pc
                /\ raised_by' = raised_by
        ELSE pc' = "raised" /\ raised_by' = "get_field" /\ reading' = reading
    /\ UNCHANGED <<itc, cfg, aux, ctl, smu, sink, state, last_field, visited, mag_target, mag_mode,
                   idx, field_idx, teardowns, exit_by>>

\* the settling wait that ends _goto_field_and_stabilize (current_field is local
\* and gone on return), then `for voltage in voltage_space:` starts over
Settle ==
    /\ pc = "settle"
    /\ pc' = "loop"
    /\ idx' = 1
    /\ reading' = 0
    /\ UNCHANGED <<itc, cfg, aux, ctl, smu, sink, state, last_field, visited, mag_target, mag_mode,
                   field_idx, teardowns, raised_by, exit_by>>

\* --------------------------------------------------------- end-point sweeps
\* the call between the set-up and the while loop: self._device.set_voltage(...)
\* (I(B): self._max_voltage, I(T): self._voltage), impedance sweep:
\* self.mfia_measurement.start_auto_ranging()
SetVoltage ==
    /\ pc = "setv"
    /\ \E ok \in BOOLEAN :
        IF ok
        THEN /\ voltage' = CASE variant = "IvB" -> max_voltage
                              [] variant = "IvT" -> iv_voltage
                              [] OTHER -> voltage
             /\ smu_cmds' = IF HasSourceMeter(variant) THEN Issue(smu_cmds, <<"set_voltage">>)
                             ELSE smu_cmds
             /\ pc' = "loop"
             /\ raised_by' = raised_by
        ELSE /\ pc' = "raised" /\ raised_by' = "set_voltage"
             /\ UNCHANGED <<voltage, smu_cmds>>
    /\ UNCHANGED <<itc, cfg, aux, ctl, armed, sink, magnet, idx, field_idx, teardowns, exit_by>>

\* `while not self._should_stop.is_set():`
EndPointLoopCheck ==
    /\ pc = "loop"
    /\ variant \in EndPointVariants
    /\ IF should_stop
       THEN pc' = "teardown" /\ exit_by' = stop_by /\ tick_acq' = tick_acq
       ELSE pc' = "sample" /\ exit_by' = exit_by /\ tick_acq' = "none"
    /\ tick_T1' = NoReading
    /\ UNCHANGED <<itc, cfg, ext, notified, sweep_starts, leg_failed, ctl, smu, records, aborted,
                   magnet, idx, field_idx, teardowns, raised_by>>

\* a loop without the try/except around _acquire_data_point
AcquireCaught_Never(v) == FALSE

\* whether _measure catches what _acquire_data_point raises
AcquireCaught(v) == v \in EndPointVariants

\* the statement that follows the try/except around _acquire_data_point
AfterAcquire(v) == IF v = "IvB" THEN "switch" ELSE "toggle"

\* the last index of sensitivity_list (27 entries)
LastSensitivity == 26

\* indices the lock-in reports as its sensitivity: both ends of the table
SensIndices == {0, LastSensitivity}

\* amplitude readings r, in percent of the range sensitivity_list[int(sensitivity)]
Amplitudes == {10, 95}

\* _check_sensitivitiy(r, sensitivity): the index written to self._device.sens, if
\* any; due: time() > self._sens_check_time + 10
check_sensitivitiy(r, sensitivity, due) ==
    IF ~due THEN << >>
    ELSE IF r > 90 THEN <<sensitivity + 1>>
    ELSE IF r < 25 THEN <<sensitivity - 1>>
    ELSE << >>

\* try: self._acquire_data_point(file_handle)  except: print, traceback
EndPointAcquire ==
    /\ pc = "sample"
    /\ variant \in EndPointVariants
    /\ \E read_ok \in BOOLEAN :
        \* I(T): conductance = current / voltage after the write; with a voltage
        \* of 0 the division raises once the line is written
        LET raises == ~read_ok \/ (variant = "IvT" /\ voltage = 0)
            written == read_ok /\ Len(records) < MaxTicks /\ variant # "ZvT"
        IN
        \* the impedance sweep writes no line of its own (it has no file_handle)
        /\ records' = IF written THEN WriteRecord(records, voltage) ELSE records
        \* emit_data is the statement after the division
        /\ emitted' = IF written /\ ~raises THEN emitted + 1 ELSE emitted
        /\ smu_cmds' = IF read_ok /\ HasSourceMeter(variant) THEN Issue(smu_cmds, <<"read">>)
                        ELSE smu_cmds
        /\ IF variant = "SRS" /\ ~raises
           THEN \E r \in Amplitudes, sensitivity \in SensIndices, due \in BOOLEAN :
                   tick_sens' = check_sensitivitiy(r, sensitivity, due)
           ELSE tick_sens' = << >>
        /\ tick_acq' = IF raises THEN "failed" ELSE "ok"
        /\ IF raises /\ ~AcquireCaught(variant)
           THEN pc' = "raised" /\ raised_by' = "read"
           ELSE pc' = AfterAcquire(variant) /\ raised_by' = raised_by
    /\ UNCHANGED <<itc, cfg, tick_T1, notified, sweep_starts, leg_failed, pid, ctl, armed, voltage,
                   aborted, magnet, idx, field_idx, teardowns, exit_by>>

\* ------------------------------------------------------ phase state machine
\* number of magnet commands the branch of _switch_states_if_necessary taken in
\* state st with field value f issues (each of them can raise)
Commands(st, f) ==
    CASE st \in {START, HALTING_UP, HALTING_DOWN, HALTING_UP2} -> 2
      [] st \in {GOING_UP, GOING_BACK_UP} -> IF Abs(f - max_field) < Eps THEN 1 ELSE 0
      [] st = GOING_DOWN -> IF Abs(f - (-max_field)) < Eps THEN 1 ELSE 0
      [] st = GOING_ZERO -> IF Abs(f) < Eps THEN 1 ELSE 0
      [] OTHER -> 1

\* a phase table whose first halt goes straight to the second ramp up
Successor_Skip(st) ==
    IF st = HALTING_UP THEN GOING_BACK_UP
    ELSE IF st < DONE THEN st + 1 ELSE st

\* the value each branch of _switch_states_if_necessary assigns to self._state
Successor(st) ==
    CASE st = START         -> GOING_UP
      [] st = GOING_UP      -> HALTING_UP
      [] st = HALTING_UP    -> GOING_DOWN
      [] st = GOING_DOWN    -> HALTING_DOWN
      [] st = HALTING_DOWN  -> GOING_BACK_UP
      [] st = GOING_BACK_UP -> HALTING_UP2
      [] st = HALTING_UP2   -> GOING_ZERO
      [] st = GOING_ZERO    -> DONE
      [] OTHER              -> st

\* a mode table that returns to zero in TO_SET_POINT mode
ModeOnEntry_ToSetPointHome(st) ==
    IF st \in {GOING_UP, GOING_DOWN, GOING_BACK_UP, GOING_ZERO} THEN "TO_SET_POINT" ELSE "HOLD"

\* the sweep mode the branch that assigns st to self._state commands (the DONE
\* branch, which leaves the state alone, commands HOLD again)
ModeOnEntry(st) ==
    CASE st \in {GOING_UP, GOING_DOWN, GOING_BACK_UP} -> "TO_SET_POINT"
      [] st = GOING_ZERO -> "TO_ZERO"
      [] OTHER -> "HOLD"

\* the if/elif chain of _switch_states_if_necessary: the values of self._state, of the
\* magnet target and sweep mode and of the stop flag after the branch, when its
\* failing-th magnet command raises (0: none does)
Switch(st, f, failing, target, mode) ==
    LET same == [state |-> st, target |-> target, mode |-> mode, stop |-> FALSE]
    IN
    CASE st = START ->
            \* set_target_field; set_sweep_mode; state
            [state  |-> IF failing = 0 THEN Successor(st) ELSE st,
             target |-> IF failing = 1 THEN target ELSE max_field,
             mode   |-> IF failing = 0 THEN ModeOnEntry(Successor(st)) ELSE mode,
             stop   |-> FALSE]
      [] st = GOING_UP ->
            \* state; set_sweep_mode
            IF Abs(f - max_field) < Eps
            THEN [same EXCEPT !.state = Successor(st),
                              !.mode = IF failing = 0 THEN ModeOnEntry(Successor(st)) ELSE mode]
            ELSE same
      [] st = HALTING_UP ->
            \* set_target_field; state; set_sweep_mode
            [state  |-> IF failing = 1 THEN st ELSE Successor(st),
             target |-> IF failing = 1 THEN target ELSE -max_field,
             mode   |-> IF failing = 0 THEN ModeOnEntry(Successor(st)) ELSE mode,
             stop   |-> FALSE]
      [] st = GOING_DOWN ->
            IF Abs(f - (-max_field)) < Eps
            THEN [same EXCEPT !.state = Successor(st),
                              !.mode = IF failing = 0 THEN ModeOnEntry(Successor(st)) ELSE mode]
            ELSE same
      [] st = HALTING_DOWN ->
            \* set_target_field; set_sweep_mode; state
            [state  |-> IF failing = 0 THEN Successor(st) ELSE st,
             target |-> IF failing = 1 THEN target ELSE max_field,
             mode   |-> IF failing = 0 THEN ModeOnEntry(Successor(st)) ELSE mode,
             stop   |-> FALSE]
      [] st = GOING_BACK_UP ->
            IF Abs(f - max_field) < Eps
            THEN [same EXCEPT !.state = Successor(st),
                              !.mode = IF failing = 0 THEN ModeOnEntry(Successor(st)) ELSE mode]
            ELSE same
      [] st = HALTING_UP2 ->
            \* set_target_field; set_sweep_mode; state
            [state  |-> IF failing = 0 THEN Successor(st) ELSE st,
             target |-> IF failing = 1 THEN target ELSE 0,
             mode   |-> IF failing = 0 THEN ModeOnEntry(Successor(st)) ELSE mode,
             stop   |-> FALSE]
      [] st = GOING_ZERO ->
            IF Abs(f) < Eps
            THEN [same EXCEPT !.state = Successor(st),
                              !.mode = IF failing = 0 THEN ModeOnEntry(Successor(st)) ELSE mode]
            ELSE same
      [] OTHER ->
            \* self._should_stop.set(); set_sweep_mode
            [same EXCEPT !.stop = TRUE, !.mode = IF failing = 0 THEN ModeOnEntry(Successor(st)) ELSE mode]

\* `if not field: field = self._last_field` -- a reading of 0.0 is falsy as well
FieldOrLast(r, last) == IF r = 0 THEN last ELSE r

\* _switch_states_if_necessary, called once per tick after the sample
SwitchStates ==
    /\ pc = "switch"
    /\ \E ok \in BOOLEAN :
        IF ~ok
        THEN \* get_field() raised: the except clause only prints, `field` stays
             \* unbound and `if not field` raises UnboundLocalError
             /\ pc' = "raised"
             /\ raised_by' = "field_unbound"
             /\ UNCHANGED <<ctl, magnet>>
        ELSE \E r \in FieldReadings :
             LET field == FieldOrLast(r, last_field) IN
             \E failing \in 0..Commands(state, field) :
             LET after == Switch(state, field, failing, mag_target, mag_mode) IN
                /\ reading' = r
                /\ last_field' = field
                /\ state' = after.state
                /\ visited' = IF after.state = state THEN visited
                              ELSE Append(visited, after.state)
                /\ mag_target' = after.target
                /\ mag_mode' = after.mode
                /\ should_stop' = (should_stop \/ after.stop)
                /\ stop_by' = IF after.stop /\ ~should_stop THEN "done" ELSE stop_by
                /\ UNCHANGED <<stop_at, stop_in_flight>>
                /\ pc' = IF failing = 0 THEN "loop" ELSE "raised"
                /\ raised_by' = IF failing = 0 THEN raised_by ELSE "magnet"
    /\ UNCHANGED <<itc, cfg, aux, smu, sink, idx, field_idx, teardowns, exit_by>>

\* ------------------------------------------------------ temperature sweeps
\* T1 readings at the start of a sweep: two K above or below the end point
StartReadings(end) == {t \in {end - 2, end + 2} : t >= 0}

\* a notifier that sends every message twice
Notify_Twice(log, message) == Append(Append(log, message), message)

\* send_meassage_telegram(message): the notifier's calls after this one
Notify(log, message) == Append(log, message)

\* calls of _start_sweep that can raise, in call order; after a constructor that
\* returned early self._temperature_end does not exist, and
\* `(current_temperature - self._temperature_end) / self._sweep_rate` raises
\* ZeroDivisionError with a sweep rate of 0
StartOutcomes ==
    IF ReturnedEarly THEN {"T1", "no_config"}
    ELSE IF sweep_rate = 0 THEN {"T1", "zero_division"}
    ELSE {"none", "T1", "itc", "notify"}

\* _start_sweep: read T1, program and start the temperature sweep of the ITC, send
\* the start message
StartSweep ==
    /\ pc = "start"
    /\ \E failing \in StartOutcomes, current_temperature \in StartReadings(temperature_end) :
        /\ set_point' = IF failing \in {"T1", "no_config", "zero_division"} THEN set_point
                        ELSE current_temperature
        /\ sweep_running' = (failing \in {"none", "notify"})
        /\ sweep_starts' = IF failing \in {"none", "notify"} THEN sweep_starts + 1 ELSE sweep_starts
        /\ notified' = IF failing \in {"none", "notify"} THEN Notify(notified, "start")
                        ELSE notified
        /\ pc' = IF failing # "none" THEN "raised"
                 ELSE IF variant \in {"IvT", "ZvT"} THEN "setv" ELSE "loop"
        /\ raised_by' = CASE failing = "none" -> raised_by
                           [] failing = "T1" -> "start_T1"
                           [] failing = "itc" -> "start_itc"
                           [] failing = "notify" -> "notify_start"
                           [] failing = "zero_division" -> "zero_division"
                           [] OTHER -> "no_config"
    /\ UNCHANGED <<cfg, ext, tick_T1, leg_failed, ctl, smu, sink, magnet, last_temperatures, idx,
                   field_idx, teardowns, exit_by>>

\* _toggle_pid_if_necessary: the temperature band (K) and the period (s) of the test
PidLow == 20
PidHigh == 30
PidPeriod == 100

\* self._last_toggle: set to time() by the constructor (the origin of the time
\* scale) and assigned nowhere else
last_toggle == 0

\* values of time() (s) seen by _toggle_pid_if_necessary
Times == {100, 101}

\* T1 readings (K) of _toggle_pid_if_necessary, on the way to the end temperature
ToggleReadings(end) == {end + 2, end + 3}

\* `20 < current_temperature < 30 and time() - self._last_toggle > 100`
ShouldToggle(T1, now, last) == PidLow < T1 /\ T1 < PidHigh /\ now - last > PidPeriod

\* _toggle_pid_if_necessary: reads T1 outside any try; time() never runs backwards
TogglePid ==
    /\ pc = "toggle"
    /\ \E ok \in BOOLEAN :
        IF ok
        THEN \E T1 \in ToggleReadings(temperature_end) :
             \* `and` short-circuits: time() is called only with T1 inside the band
             \E now \in (IF PidLow < T1 /\ T1 < PidHigh THEN Times ELSE {last_toggle}) :
                /\ now >= pid_toggled_at \/ now = last_toggle
                /\ IF ShouldToggle(T1, now, last_toggle)
                   THEN pid_toggled_at' = now /\ tick_pid' = <<T1, now>>
                   ELSE pid_toggled_at' = pid_toggled_at /\ tick_pid' = << >>
                /\ pc' = "check" /\ raised_by' = raised_by
        ELSE pc' = "raised" /\ raised_by' = "T1" /\ UNCHANGED pid
    /\ tick_sens' = << >>
    /\ UNCHANGED <<cfg, tick_T1, notified, sweep_starts, leg_failed, emitted, ctl, smu, sink, magnet,
                   itc, idx, field_idx, teardowns, exit_by>>

\* the sum of the first n entries of q
RECURSIVE SumTo(_, _)
SumTo(q, n) == IF n = 0 THEN 0 ELSE q[n] + SumTo(q, n - 1)

SeqSum(q) == SumTo(q, Len(q))

\* np.polyfit(np.arange(0, len(w)), w, 1)[0] as the fraction SlopeNum / SlopeDen
SlopeNum(w) ==
    LET n == Len(w) IN
    n * SeqSum([i \in 1..n |-> (i - 1) * w[i]]) - SeqSum([i \in 1..n |-> i - 1]) * SeqSum(w)

SlopeDen(w) ==
    LET n == Len(w) IN
    n * SeqSum([i \in 1..n |-> (i - 1) * (i - 1)])
        - SeqSum([i \in 1..n |-> i - 1]) * SeqSum([i \in 1..n |-> i - 1])

\* np.abs(rate) < stability_rate
Stable(w) == Abs(SlopeNum(w)) * StabilityDen < StabilityNum * SlopeDen(w)

\* the first test of _check_temp_reached: SRS takes the absolute distance, the
\* I(T) sweep and the impedance sweep the signed one
FastPathReject(v, T1, end) ==
    IF v = "SRS" THEN Abs(T1 - end) > Band ELSE (T1 - end) > Band

\* self._last_temperatures[-maximal_list_len:]
LastN(w) == SubSeq(w, IF Len(w) > maximal_list_len THEN Len(w) - maximal_list_len + 1 ELSE 1, Len(w))

\* a detector that fits the line to whatever the window holds, full or not
check_temp_reached_EagerFit(v, end, T1, T3, w, fit_ok) ==
    IF FastPathReject(v, T1, end)
    THEN [reached |-> FALSE, window |-> w, raised |-> FALSE]
    ELSE LET w2 == Append(LastN(w), T3) IN
         IF fit_ok
         THEN [reached |-> Stable(w2), window |-> w2, raised |-> FALSE]
         ELSE [reached |-> FALSE, window |-> w2, raised |-> TRUE]

\* _check_temp_reached with readings T1 and T3 on window w; fit_ok: polyfit returns.
\* When polyfit raises, `rate` stays unbound and np.abs(rate) raises
check_temp_reached(v, end, T1, T3, w, fit_ok) ==
    IF FastPathReject(v, T1, end)
    THEN [reached |-> FALSE, window |-> w, raised |-> FALSE]
    ELSE IF Len(w) < maximal_list_len
    THEN [reached |-> FALSE, window |-> Append(w, T3), raised |-> FALSE]
    ELSE LET w2 == Append(LastN(w), T3) IN
         IF fit_ok
         THEN [reached |-> Stable(w2), window |-> w2, raised |-> FALSE]
         ELSE [reached |-> FALSE, window |-> w2, raised |-> TRUE]

\* safety floor and safe minimum of the set-point override (K)
Floor(v) == IF v = "IvT" THEN 10 ELSE 20
SafeMin(v) == IF v = "IvT" THEN 10 ELSE 15

\* an override that looks at the temperature on every tick, reached or not
Override_AnyTick(v, reached, T1, sp) == IF T1 < Floor(v) THEN SafeMin(v) ELSE sp

\* `if self._check_temp_reached(): ... if self._temp.T1 < floor:
\* self._temp.temperature_set_point = safe minimum`: the set-point after the tick
Override(v, reached, T1, sp) == IF reached /\ T1 < Floor(v) THEN SafeMin(v) ELSE sp

Changes(w) == Cardinality({i \in 1..(Len(w) - 1) : w[i] # w[i + 1]})

\* `if self._check_temp_reached(): self._should_stop.set(); if T1 < floor: ...`
CheckTempReached ==
    /\ pc = "check"
    /\ \E T1 \in T1Readings(temperature_end), T3 \in T3Readings :
        LET rejected == FastPathReject(variant, T1, temperature_end)
            fitted == check_temp_reached(variant, temperature_end, T1, T3,
                                         last_temperatures, TRUE)
            unfitted == check_temp_reached(variant, temperature_end, T1, T3,
                                           last_temperatures, FALSE)
        IN
        \* T3 is read only when the fast path does not reject
        /\ rejected => T3 = 0
        /\ ~rejected => Changes(Append(LastN(last_temperatures), T3)) <= MaxT3Changes
        /\ \E failing \in {"none", "T1", "T3", "polyfit", "T1_floor"} :
            LET r == IF failing = "polyfit" THEN unfitted ELSE fitted IN
            /\ failing = "T3" => ~rejected
            /\ failing = "polyfit" => r.raised
            /\ failing = "T1_floor" => r.reached
            /\ Changes(r.window) <= MaxT3Changes
            /\ last_temperatures' = IF failing \in {"T1", "T3"} THEN last_temperatures ELSE r.window
            /\ tick_T1' = IF failing = "T1" THEN tick_T1 ELSE T1
            /\ tick_pid' = << >>
            /\ IF failing \in {"T1", "T3", "polyfit"}
               THEN /\ pc' = "raised"
                    /\ raised_by' = IF failing = "polyfit" THEN "rate_unbound" ELSE failing
                    /\ UNCHANGED <<ctl, set_point>>
               ELSE /\ should_stop' = (should_stop \/ r.reached)
                    /\ stop_by' = IF r.reached /\ ~should_stop THEN "reached" ELSE stop_by
                    /\ UNCHANGED <<stop_at, stop_in_flight>>
                    /\ IF failing = "T1_floor"
                       THEN pc' = "raised" /\ raised_by' = "T1" /\ set_point' = set_point
                       ELSE /\ pc' = "loop"
                            /\ raised_by' = raised_by
                            /\ \E T1b \in (IF r.reached THEN T1Readings(temperature_end) ELSE {T1}) :
                                set_point' = Override(variant, r.reached, T1b, set_point)
    /\ UNCHANGED <<cfg, pid_toggled_at, acq, notified, sweep_starts, leg_failed, smu, sink, magnet, sweep_running,
                   idx, field_idx, teardowns, exit_by>>

\* ---------------------------------------------------------------- teardown
\* a teardown that zeroes the voltage and stops the sweep but does not disarm
SafeState_NoDisarm(v, volt, arm, running) ==
    [voltage |-> IF HasSourceMeter(v) THEN 0 ELSE volt,
     armed   |-> arm,
     sweep_running |-> IF v \in TempVariants THEN FALSE ELSE running]

\* a teardown that disarms the source-meter before it zeroes the voltage
TeardownCommands_DisarmFirst(v) ==
    IF HasSourceMeter(v) THEN <<"disarm", "set_voltage">> ELSE << >>

\* the calls _deinitialize_device makes on the source-meter, in order
TeardownCommands(v) ==
    IF HasSourceMeter(v) THEN <<"set_voltage", "disarm">> ELSE << >>

\* the driven outputs after _deinitialize_device: set_voltage(0) and disarm() on
\* the source-meter, stop_temperature_sweep() on the temperature controller
SafeState(v, volt, arm, running) ==
    [voltage |-> IF HasSourceMeter(v) THEN 0 ELSE volt,
     armed   |-> IF HasSourceMeter(v) THEN FALSE ELSE arm,
     sweep_running |-> IF v \in TempVariants THEN FALSE ELSE running]

\* _deinitialize_device, up to the first field poll of the magnet variants; the
\* temperature sweeps end it with the finished message, which may raise
Deinitialize ==
    /\ pc = "teardown"
    /\ teardowns' = teardowns + 1
    /\ LET safe == SafeState(variant, voltage, armed, sweep_running) IN
       /\ voltage' = safe.voltage
       /\ armed' = safe.armed
       /\ sweep_running' = safe.sweep_running
    /\ smu_cmds' = Issue(smu_cmds, TeardownCommands(variant))
    /\ IF variant \in MagnetVariants
       THEN /\ mag_target' = 0 /\ mag_mode' = "TO_ZERO" /\ pc' = "wait_zero"
            /\ UNCHANGED <<notified, raised_by>>
       ELSE IF variant \in TempVariants
       THEN \E sent \in BOOLEAN :
            /\ notified' = Notify(notified, "finished")
            /\ pc' = IF sent THEN "done" ELSE "raised"
            /\ raised_by' = IF sent THEN raised_by ELSE "notify_finished"
            /\ UNCHANGED <<mag_target, mag_mode>>
       ELSE UNCHANGED <<mag_target, mag_mode, notified, raised_by>> /\ pc' = "done"
    /\ UNCHANGED <<cfg, ext, tick_T1, sweep_starts, leg_failed, ctl, sink, state, last_field, reading,
                   visited, idx, field_idx, exit_by, set_point, last_temperatures>>

\* a field poll that takes any reading for zero
ZeroReached_Always(field) == TRUE

\* the negation of the loop condition `abs(field) >= 0.001` of the magnet teardown
ZeroReached(field) == Abs(field) < Eps

\* `while abs(field) >= 0.001:` of the magnet teardown, then set_sweep_mode(HOLD)
WaitZero ==
    /\ pc = "wait_zero"
    /\ \E field \in FieldReadings :
        /\ reading' = field
        /\ IF ZeroReached(field)
           THEN mag_mode' = "HOLD" /\ pc' = "done"
           ELSE UNCHANGED <<mag_mode, pc>>
    /\ UNCHANGED <<itc, cfg, aux, ctl, smu, sink, state, last_field, visited, mag_target,
                   idx, field_idx, teardowns, raised_by, exit_by>>

Program ==
    \/ Initialize
    \/ SweepLoopCheck
    \/ ApplySetPoint
    \/ SweepSample
    \/ FieldLoop
    \/ GotoField
    \/ Settle
    \/ SetVoltage
    \/ EndPointLoopCheck
    \/ EndPointAcquire
    \/ SwitchStates
    \/ StartSweep
    \/ TogglePid
    \/ CheckTempReached
    \/ Deinitialize
    \/ WaitZero

Next == Program \/ SetStop

Spec == Init /\ [][Next]_vars

\* the measurement thread keeps running; the controller need not act
FairSpec == Spec /\ WF_vars(Program)

\* ---------------------------------------------------------------- claims
\* positions of _measure at and after the call of _deinitialize_device
TeardownPcs == {"teardown", "wait_zero", "done"}

\* _deinitialize_device has brought the outputs to their safe values (the finished
\* message that ends the teardown of a temperature sweep may still have raised)
TornDown ==
    pc \in {"wait_zero", "done"} \/ (pc = "raised" /\ raised_by = "notify_finished")

\* C1: a run that leaves its loop because the trajectory is exhausted, because
\* convergence or DONE was reached or because the stop flag was set calls
\* _deinitialize_device exactly once, after the last sample; afterwards the source
\* voltage is 0, the temperature sweep is stopped and the device is disarmed.
C1_TeardownOnceAfterLoop ==
    /\ [](exit_by # "none" => (pc = "teardown" \/ TornDown))
    /\ [](pc = "teardown" => teardowns = 0)
    /\ [](TornDown => teardowns = 1 /\ voltage = 0 /\ ~armed /\ ~sweep_running)
    /\ [][pc = "teardown" /\ pc' # pc => teardowns' = teardowns + 1]_vars
    /\ [][teardowns >= 1 =>
            records' = records /\ teardowns' = teardowns /\ voltage' = voltage /\ armed' = armed]_vars

\* C1 witness: an I(T) sweep that converged with a sample on file and was torn down
C1_Witness ==
    /\ variant = "IvT" /\ pc = "done" /\ exit_by = "reached"
    /\ teardowns = 1 /\ records # << >> /\ iv_voltage # 0

\* the calls of the stepping / sampling phase whose exception leaves _measure
StepPhaseRaise ==
    /\ pc = "raised"
    /\ raised_by \in {"set_voltage", "read", "get_field", "magnet", "field_unbound",
                      "T1", "T3", "rate_unbound"}
    /\ raised_by = "set_voltage" => variant \in SweepVariants

\* C2: when a device call of the stepping / sampling phase (set-point, sample read,
\* detector, phase-machine step) raises, the run still ends with the source voltage
\* at 0 and the device disarmed.
C2_TeardownAfterException ==
    (StepPhaseRaise /\ HasSourceMeter(variant)) => (voltage = 0 /\ ~armed)

\* C3: when arm() raises in _initialize_device the run has no record and
\* _deinitialize_device is called exactly once.
C3_TeardownAfterFailedArm ==
    (pc = "raised" /\ raised_by = "arm") => (records = << >> /\ teardowns = 1)

\* C4: in the ramp and the hysteresis sweep the stop flag is looked at before every
\* trajectory step; a step begins only with the flag clear, a set flag ends the loop
\* with exactly one emit_aborted and no further set-point or sample, and a run whose
\* trajectory is exhausted emits none.
C4_StopCheckedBeforeEveryStep ==
    /\ [](variant \in SweepVariants =>
            /\ aborted <= 1
            /\ exit_by = "exhausted" => aborted = 0
            /\ exit_by = "stop" => aborted = 1)
    /\ [][(variant \in SweepVariants) /\ pc = "loop" /\ pc' = "set" => should_stop = FALSE]_vars
    /\ [][(variant \in SweepVariants) /\ pc = "loop" /\ pc' # pc /\ should_stop /\ idx <= Len(space) =>
            pc' = "teardown" /\ aborted' = aborted + 1]_vars
    /\ [][(variant \in SweepVariants) /\ aborted >= 1 =>
            /\ records' = records
            /\ aborted' = aborted
            /\ pc' \in TeardownPcs
            /\ voltage' # voltage => (pc = "teardown" /\ voltage' = 0)]_vars

\* C4 witness: a hysteresis sweep stopped part-way, one emit_aborted, torn down
C4_Witness ==
    /\ variant = "ESweep" /\ pc = "done" /\ exit_by = "stop" /\ aborted = 1
    /\ Len(records) > 0 /\ Len(records) < Len(space)

\* C5: when the controller sets the stop flag while step k of a ramp or hysteresis
\* sweep is in flight, step k is the last step begun, and a run that reaches
\* teardown has exactly k records and, once finished, exactly one teardown.
C5_CooperativeCancel ==
    (variant \in SweepVariants /\ stop_by = "controller" /\ stop_in_flight) =>
        /\ pc \in {"set", "sample"} => idx = stop_at
        /\ pc \in {"loop"} \cup TeardownPcs => Len(records) = stop_at
        /\ pc = "done" => teardowns = 1

\* C5 witness: the flag set during the 2nd step of a 10-step ramp, 2 records
C5_Witness ==
    /\ variant = "Ramp" /\ number_of_points = 10
    /\ stop_by = "controller" /\ stop_in_flight /\ stop_at = 2
    /\ pc = "done" /\ Len(records) = 2 /\ teardowns = 1 /\ aborted = 1

\* C6: in the end-point sweeps (I(B), I(T), SRS) a failing _acquire_data_point never
\* leaves _measure: the tick goes on to the phase machine / the detector, and the
\* loop is left only through convergence, DONE or the stop flag, then teardown.
C6_AcquireFailureCaught ==
    /\ [](variant \in EndPointVariants => raised_by # "read")
    /\ [][(variant \in EndPointVariants) /\ pc = "sample" /\ pc' # pc =>
            pc' = IF variant = "IvB" THEN "switch" ELSE "toggle"]_vars
    /\ [](variant \in EndPointVariants /\ pc \in TeardownPcs =>
            should_stop /\ exit_by \in {"reached", "done", "controller", "constructor"})

\* C6 witness: an end-point run whose last sample failed and which still ended by
\* convergence or DONE and was torn down
C6_Witness ==
    /\ variant \in EndPointVariants /\ tick_acq = "failed"
    /\ pc = "done" /\ exit_by \in {"reached", "done"} /\ teardowns = 1

\* C7: in the ramp, the hysteresis and the multi-leg sweep a failed sample of one
\* trajectory step is caught and the sweep goes on with the next trajectory step.
C7_SweepSampleFailureCaught ==
    [][(variant \in SweepVariants \cup {"IvU"} /\ pc = "sample"
            /\ should_stop' = should_stop /\ tick_acq' = "failed") =>
        (pc' = "loop" /\ idx' = idx + 1 /\ raised_by' = raised_by)]_vars

\* C8: the phase machine takes the 9 states START .. DONE in this order, each once:
\* every step leaves the state alone or moves it to its immediate successor, and the
\* states taken so far are exactly START up to the present one.
C8_PhaseOrder ==
    /\ [](state \in START..DONE)
    /\ [](visited = [i \in 1..(state + 1) |-> i - 1])
    /\ [][state' = state \/ state' = state + 1]_vars

\* C8 witness: an I(B) run that went through all 9 states and was torn down
C8_Witness ==
    /\ variant = "IvB" /\ pc = "done" /\ state = DONE
    /\ visited = <<START, GOING_UP, HALTING_UP, GOING_DOWN, HALTING_DOWN,
                   GOING_BACK_UP, HALTING_UP2, GOING_ZERO, DONE>>

\* C9: without external cancellation and without a raising call, when the field
\* reading comes again and again within the tolerance of the commanded target
\* (a reading of exactly 0 included), the I(B) run reaches DONE, leaves the loop and
\* is torn down.
C9_PhaseMachineLiveness ==
    ( /\ variant = "IvB"
      /\ [](stop_by \notin {"controller", "constructor"})
      /\ [](pc # "raised")
      /\ []<>(pc = "loop" /\ Abs(reading - mag_target) < Eps) )
    => <>(state = DONE /\ teardowns = 1)

\* C10: when get_field fails on a tick of the phase machine, _last_field is used and
\* no exception leaves _switch_states_if_necessary.
C10_StaleFieldFallback ==
    variant = "IvB" => raised_by # "field_unbound"

\* a call of _check_temp_reached that returned to _measure, with the flag still clear
\* before it (so that the flag after it tells what the detector reported)
DetectorCall ==
    variant \in TempVariants /\ pc = "check" /\ pc' = "loop" /\ ~should_stop

\* C11: on every call of _check_temp_reached with |T1 - end| > 1.0, above or below
\* the end temperature, the detector reports not reached and leaves the window
\* _last_temperatures as it was.
C11_FastPathRejects ==
    [][(DetectorCall /\ Abs(tick_T1' - temperature_end) > Band) =>
        (last_temperatures' = last_temperatures /\ ~should_stop')]_vars

\* C12: once the window is full, _check_temp_reached reports reached if and only
\* if the least-squares slope of the window of N = 10 samples (the 10 latest T3
\* readings pushed) is below the stability rate 0.1/120 in absolute value.
C12_ReachedIffSlopeOfTen ==
    [][(DetectorCall /\ Abs(tick_T1' - temperature_end) <= Band
            /\ Len(last_temperatures) >= maximal_list_len) =>
        (should_stop' <=> Stable(LastN(last_temperatures')))]_vars

\* C13: when the line fit of _check_temp_reached fails, no exception reaches the
\* caller: the run is never left through the unbound `rate`.
C13_FitFailureContained ==
    variant \in TempVariants => raised_by # "rate_unbound"

\* all entries of w are the same value
AllSame(w) == \A i \in 1..Len(w) : w[i] = w[1]

\* C14: on every in-band call of _check_temp_reached after which the window holds
\* at least 10 samples, all of the same value, the detector reports reached.
C14_ConstantSeriesReached ==
    [][(DetectorCall /\ Abs(tick_T1' - temperature_end) <= Band
            /\ Len(last_temperatures') >= maximal_list_len /\ AllSame(last_temperatures')) =>
        should_stop']_vars

\* C15: on the tick on which the target is reported reached the low-temperature
\* policy may force the set-point to the safe minimum; a set-point written by the
\* policy is written on that tick only and is never lower than the sweep target.
C15_ForcedSetPointNotBelowTarget ==
    [][((variant \in TempVariants) /\ pc = "check" /\ set_point' # set_point) =>
        (should_stop' /\ set_point' >= temperature_end)]_vars

\* C16: after a constructor rejected a parameter and called abort(), _measure arms
\* no device, applies no set-point, commands neither the magnet nor a temperature
\* sweep and records no sample.
C16_RejectedRunNeverStarts ==
    stop_by = "constructor" =>
        /\ ~armed /\ voltage = 0 /\ records = << >>
        /\ mag_mode = "NONE" /\ ~sweep_running /\ sweep_starts = 0

\* C17: in the end-point sweeps and the field loop of the multi-leg sweep a run that
\* the controller cancelled has emitted the aborted notification when it ends, and a
\* run that ended by convergence, DONE or exhaustion of the field list has not.
C17_CancelReportedAborted ==
    (variant \in EndPointVariants \cup {"IvU"} /\ pc = "done") =>
        /\ (stop_by = "controller" /\ exit_by \in {"controller", "stop"}) => aborted >= 1
        /\ (stop_by # "controller" /\ exit_by \in {"reached", "done", "exhausted"}) => aborted = 0

\* C18: in a ramp or hysteresis sweep the records are the set-points applied so
\* far, in trajectory order; each record is on file before the next set-point is
\* applied, and a run that exhausts its trajectory has one record per set-point
\* (N records for the ramp with N points).
C18_RecordsFollowTrajectory ==
    variant \in SweepVariants =>
        /\ Len(records) <= Len(space)
        /\ records = SubSeq(space, 1, Len(records))
        /\ pc = "set" => Len(records) = idx - 1
        /\ pc = "sample" => (Len(records) = idx - 1 /\ voltage = space[idx])
        /\ exit_by = "exhausted" => records = space
        /\ (variant = "Ramp" /\ exit_by = "exhausted") => Len(records) = number_of_points

\* C18 witness: an uninterrupted 5-point ramp with its 5 records, torn down
C18_Witness ==
    /\ variant = "Ramp" /\ number_of_points = 5 /\ pc = "done" /\ ~should_stop
    /\ exit_by = "exhausted" /\ Len(records) = 5 /\ records = space

\* C19: a temperature sweep that ends by convergence or by the stop flag has called
\* the notifier exactly twice: "start" once the sweep is started and before any
\* sample, "finished" in the teardown after the sweep is stopped, with no sample
\* after it; the temperature sweep is started exactly once.
C19_NotifierCalledTwice ==
    /\ [](sweep_starts <= 1)
    /\ [](variant \in TempVariants /\ TornDown =>
            notified = <<"start", "finished">> /\ sweep_starts = 1 /\ ~sweep_running)
    /\ [][(notified' # notified /\ notified = << >>) =>
            /\ notified' = <<"start">> /\ sweep_starts' = 1 /\ sweep_running'
            /\ records = << >> /\ tick_acq = "none"]_vars
    /\ [][(notified' # notified /\ notified # << >>) =>
            /\ notified' = <<"start", "finished">>
            /\ teardowns' = 1 /\ ~sweep_running']_vars
    /\ [][Len(notified) >= 2 => (notified' = notified /\ records' = records)]_vars

\* C19 witness: an SRS sweep that converged with a sample on file, both messages sent
C19_Witness ==
    /\ variant = "SRS" /\ pc = "done" /\ exit_by = "reached" /\ records # << >>
    /\ notified = <<"start", "finished">> /\ sweep_starts = 1

\* C20: an exception of send_meassage_telegram does not end the run: none leaves
\* _start_sweep, and after one in the teardown the sweep is stopped and the device
\* zeroed and disarmed.
C20_NotifierBestEffort ==
    variant \in TempVariants =>
        /\ raised_by # "notify_start"
        /\ raised_by = "notify_finished" => (~sweep_running /\ voltage = 0 /\ ~armed)

\* the target of the ramp: self._max_voltage
ramp_target == polarity * max_voltage

\* C21: the set-points applied by an uninterrupted ramp with N >= 2 points are
\* exactly N values, the first the start 0, the last the target max_voltage,
\* evenly spaced and strictly monotonic in the direction of the target
\* (decreasing when the target is below the start).
C21_RampEvenlySpaced ==
    (variant = "Ramp" /\ number_of_points >= 2 /\ exit_by = "exhausted") =>
        /\ Len(records) = number_of_points
        /\ records[1] = 0
        /\ records[number_of_points] = ramp_target
        /\ \A i \in 1..(number_of_points - 1) :
            /\ (records[i + 1] - records[i]) * (number_of_points - 1) = ramp_target
            /\ IF ramp_target < 0 THEN records[i + 1] < records[i]
                                  ELSE records[i + 1] > records[i]

\* C21 witness: an uninterrupted downward ramp of 4 points, torn down
C21_Witness ==
    /\ variant = "Ramp" /\ polarity = -1 /\ number_of_points = 4
    /\ pc = "done" /\ exit_by = "exhausted" /\ ~should_stop
    /\ records[1] = 0 /\ records[4] = -max_voltage

\* the values of a sequence
Range(q) == {q[i] : i \in 1..Len(q)}

\* C22: with number_of_points = 1 the trajectory still holds its boundary values:
\* the ramp its target, the hysteresis sweep +max_voltage and (with at least one
\* loop) -max_voltage.
C22_SinglePointHasBoundary ==
    (variant \in SweepVariants /\ number_of_points = 1 /\ exit_by = "exhausted") =>
        /\ variant = "Ramp" => ramp_target \in Range(records)
        /\ variant = "ESweep" => max_voltage \in Range(records)
        /\ (variant = "ESweep" /\ loop_count >= 1) => -max_voltage \in Range(records)

\* the end points of leg k (counted from 0) of a hysteresis trajectory with L loops:
\* the first ascent, L times (descent, to -max, back to 0, ascent), the final descent
LegEnds(k, L) ==
    IF k = 0 THEN <<0, max_voltage>>
    ELSE IF k = 4 * L + 1 THEN <<max_voltage, 0>>
    ELSE CASE (k - 1) % 4 = 0 -> <<max_voltage, 0>>
           [] (k - 1) % 4 = 1 -> <<0, -max_voltage>>
           [] (k - 1) % 4 = 2 -> <<-max_voltage, 0>>
           [] OTHER           -> <<0, max_voltage>>

LegRecords(fld, N) ==
    [i \in 1..(2 * N) |->
        <<fld, IF i <= N THEN linspace(0, max_voltage, N)[i]
                         ELSE linspace(max_voltage, 0, N)[i - N]>>]

\* the records of the legs at the field set-points fs, in list order
RECURSIVE AllLegRecords(_, _)
AllLegRecords(fs, N) ==
    IF fs = << >> THEN << >> ELSE LegRecords(Head(fs), N) \o AllLegRecords(Tail(fs), N)

\* C24: in a multi-leg field sweep in which no leg failed, the fields are visited
\* in list order and the records are, field after field in list order, the full
\* voltage ramp 0 to max_voltage to 0 (2N records) of each field; the leg in flight
\* is at the field its position in the list names, and an uninterrupted run ends
\* with |F| * 2N records.
C24_LegsReplayedPerField ==
    (variant = "IvU" /\ ~leg_failed) =>
        LET all == AllLegRecords(fields, number_of_points) IN
        /\ Len(records) <= Len(all)
        /\ records = SubSeq(all, 1, Len(records))
        /\ pc \in {"set", "sample"} =>
            /\ mag_target = fields[field_idx]
            /\ Len(records) = (field_idx - 1) * 2 * number_of_points + idx - 1
        /\ (pc = "done" /\ ~should_stop) =>
            /\ records = all
            /\ Len(records) = Len(fields) * 2 * number_of_points

\* C24 witness: an uninterrupted sweep over the two fields 0 and max_field with 2
\* points per leg and its 8 records, torn down
C24_Witness ==
    /\ variant = "IvU" /\ fields = <<0, max_field>> /\ number_of_points = 2
    /\ pc = "done" /\ ~should_stop /\ ~leg_failed /\ Len(records) = 8
    /\ records[4] = <<0, 0>> /\ records[6] = <<max_field, max_voltage>>

\* C25: however the loop of the I(B) phase sweep is left (DONE, or the stop flag set
\* by the controller in any of the 9 states), the run ends with the source voltage
\* commanded to 0, the source-meter disarmed, the magnet target 0, the measured field
\* within 0.001 of zero and HOLD as the last sweep mode commanded.
C25_PhaseSweepEndsSafe ==
    (variant = "IvB" /\ pc = "done") =>
        /\ voltage = 0 /\ ~armed
        /\ mag_target = 0 /\ mag_mode = "HOLD"
        /\ Abs(reading) < Eps
        /\ teardowns = 1

\* C25 witness: a phase sweep the controller stopped while the field was ramping
\* down, torn down
C25_Witness ==
    /\ variant = "IvB" /\ pc = "done" /\ stop_by = "controller" /\ state = GOING_DOWN
    /\ voltage = 0 /\ ~armed /\ mag_target = 0 /\ mag_mode = "HOLD" /\ reading = 1

\* C26: in the multi-leg field sweep, once the controller has set the stop flag the
\* run eventually leaves its loops and reaches the teardown (or is left by an
\* exception), also while the field stays out of tolerance of the pending set-point.
C26_StopLeavesAllLoops ==
    (variant = "IvU" /\ stop_by = "controller") ~> (pc \in TeardownPcs \cup {"raised"})

\* C27: the phase machine leaves GOING_UP and GOING_BACK_UP only on a tick whose
\* measured field is within 0.001 of +max_field, GOING_DOWN only within 0.001 of
\* -max_field and GOING_ZERO only within 0.001 of 0, the field being the value
\* get_field() returned on that tick; START and the three halting states are left
\* on the next tick whatever the field is.
C27_TransitionsGatedByTolerance ==
    /\ [][((variant = "IvB") /\ state' # state) =>
            /\ state \in {GOING_UP, GOING_BACK_UP} => Abs(reading' - max_field) < Eps
            /\ state = GOING_DOWN => Abs(reading' + max_field) < Eps
            /\ state = GOING_ZERO => Abs(reading') < Eps]_vars
    /\ [][((variant = "IvB") /\ pc = "switch" /\ pc' = "loop"
                /\ state \in {START, HALTING_UP, HALTING_DOWN, HALTING_UP2}) =>
            state' = state + 1]_vars

\* the magnet target and sweep mode in force once the phase machine has entered st
EntryCommand(st) ==
    CASE st = GOING_UP      -> <<max_field, "TO_SET_POINT">>
      [] st = HALTING_UP    -> <<max_field, "HOLD">>
      [] st = GOING_DOWN    -> <<-max_field, "TO_SET_POINT">>
      [] st = HALTING_DOWN  -> <<-max_field, "HOLD">>
      [] st = GOING_BACK_UP -> <<max_field, "TO_SET_POINT">>
      [] st = HALTING_UP2   -> <<max_field, "HOLD">>
      [] st = GOING_ZERO    -> <<0, "TO_ZERO">>
      [] OTHER              -> <<0, "HOLD">>

C29_WindowAtMostTen ==
    variant \in TempVariants => Len(last_temperatures) <= maximal_list_len

\* C30: every in-band call of _check_temp_reached made while the window holds
\* fewer than 10 readings reports not reached and pushes exactly one reading, at
\* the end of the window.
C30_NotReachedUntilFull ==
    [][(DetectorCall /\ Abs(tick_T1' - temperature_end) <= Band
            /\ Len(last_temperatures) < maximal_list_len) =>
        /\ ~should_stop'
        /\ Len(last_temperatures') = Len(last_temperatures) + 1
        /\ SubSeq(last_temperatures', 1, Len(last_temperatures)) = last_temperatures
        /\ last_temperatures'[Len(last_temperatures')] \in T3Readings]_vars

\* C30 witness: an impedance sweep after the in-band call that pushed the 9th
\* reading of a constant series, still running
C30_Witness ==
    /\ variant = "ZvT" /\ pc = "loop" /\ ~should_stop
    /\ Abs(tick_T1 - temperature_end) <= Band
    /\ Len(last_temperatures) = 9 /\ AllSame(last_temperatures)

\* C31: a PID toggle cycle (auto off, then on) is made only while 20 < T1 < 30,
\* and more than 100 seconds after the previous cycle of the run.
C31_PidToggleRateLimited ==
    [][((variant \in TempVariants) /\ pc = "toggle" /\ tick_pid' # << >>) =>
        /\ PidLow < tick_pid'[1] /\ tick_pid'[1] < PidHigh
        /\ pid_toggled_at # NoReading => tick_pid'[2] - pid_toggled_at > PidPeriod]_vars

\* C32: every temperature_end and sweep_rate the constructor accepts lets
\* _start_sweep compute its sweep time: the division by the sweep rate never raises.
C32_AcceptedParametersStartSweep ==
    (variant \in TempVariants /\ ~ReturnedEarly) => raised_by # "zero_division"

\* C33: in the I(T) sweep every sample appended to the data file is also emitted
\* in the same tick: once _acquire_data_point is over, as many samples are emitted
\* as are on file.
C33_RecordedSamplesEmitted ==
    (variant = "IvT" /\ pc # "sample") => Len(records) = emitted

\* C34: every index _check_sensitivitiy writes to the lock-in lies in 0..26.
C34_SensitivityIndexInTable ==
    (variant = "SRS" /\ tick_sens # << >>) => tick_sens[1] \in 0..LastSensitivity

\* C35: the hysteresis trajectory (and the up-and-down leg of the multi-leg sweep)
\* with N >= 2 points per leg starts at 0 and ends at 0, stays within
\* +-max_voltage, and two consecutive set-points differ by 0 or by exactly
\* max_voltage/(N-1); within a pass over it the applied voltage moves by one step.
C35_TrajectoryContinuous ==
    [][((variant \in {"ESweep", "IvU"}) /\ number_of_points >= 2) =>
        /\ space[1] = 0
        /\ space[Len(space)] = 0
        /\ \A i \in 1..Len(space) : Abs(space[i]) <= max_voltage
        /\ \A i \in 1..(Len(space) - 1) :
            \/ space[i + 1] = space[i]
            \/ Abs(space[i + 1] - space[i]) * (number_of_points - 1) = max_voltage
        /\ (pc = "set" /\ idx > 1 /\ voltage' # voltage) =>
            Abs(voltage' - voltage) * (number_of_points - 1) = max_voltage]_vars

\* C35 witness: a hysteresis sweep with one loop and 2 points per leg that applied
\* all 12 set-points, the boundary values twice each
C35_Witness ==
    /\ variant = "ESweep" /\ loop_count = 1 /\ number_of_points = 2
    /\ pc = "done" /\ exit_by = "exhausted" /\ Len(records) = 12
    /\ records[2] = max_voltage /\ records[3] = max_voltage
    /\ records[6] = -max_voltage /\ records[7] = -max_voltage

\* the source-meter took disarm() as its latest call
Disarmed == smu_cmds # << >> /\ smu_cmds[Len(smu_cmds)] = "disarm"

\* C36: on the source-meter a run that was torn down made set_voltage(0) and then
\* disarm() as its last two calls; after disarm() it commands no set-point and
\* takes no sample; every set-point and every sample comes after arm().
C36_TeardownOrdering ==
    [][HasSourceMeter(variant) =>
        /\ TornDown' => (smu_cmds' = <<"set_voltage", "disarm">> /\ voltage' = 0 /\ ~armed')
        /\ Disarmed => UNCHANGED <<smu_cmds, voltage, armed, records>>
        /\ Disarmed' => (Len(smu_cmds') = 2 /\ smu_cmds'[1] = "set_voltage" /\ voltage' = 0)
        /\ pc \in {"set", "setv", "sample"} => armed
        /\ (smu_cmds' # smu_cmds /\ ~armed) => smu_cmds' = <<"arm">>]_vars

\* C36 witness: an I(T) sweep that sourced max_voltage, took a sample and was torn
\* down
C36_Witness ==
    /\ variant = "IvT" /\ iv_voltage = max_voltage /\ pc = "done"
    /\ Len(records) >= 1 /\ voltage = 0 /\ ~armed
    /\ smu_cmds = <<"set_voltage", "disarm">>

\* positions of the multi-leg sweep inside _sweep_voltage
LegPcs == {"loop", "set", "sample"}

\* C37: in the multi-leg sweep the voltage ramp of a field set-point f starts, and
\* its samples are recorded, only after f was commanded in TO_SET_POINT mode and a
\* reading within 0.001 T of f was polled; the next set-point is commanded only
\* once the ramp of the current one has ended.
C37_StabiliseBeforeSampling ==
    [][(variant = "IvU") =>
        /\ pc' = "settle" =>
            /\ Abs(reading' - fields[field_idx']) < Eps
            /\ mag_target' = fields[field_idx'] /\ mag_mode' = "TO_SET_POINT"
        /\ (pc' \in LegPcs /\ pc \notin LegPcs) => pc = "settle"
        /\ records' # records =>
            /\ pc = "sample" /\ mag_target = fields[field_idx] /\ mag_mode = "TO_SET_POINT"
            /\ records'[Len(records')][1] = fields[field_idx]
        /\ (pc' = "goto" /\ pc # "goto") =>
            /\ pc = "fields"
            /\ field_idx > 1 => (idx > Len(space) \/ leg_failed)]_vars

\* C37 witness: the second leg of a multi-leg sweep, at the field set-point
\* max_field, has taken its first sample after the first leg was replayed in full
C37_Witness ==
    /\ variant = "IvU" /\ fields = <<0, max_field>> /\ field_idx = 2
    /\ pc = "loop" /\ idx = 2 /\ ~leg_failed /\ ~should_stop
    /\ mag_target = max_field /\ mag_mode = "TO_SET_POINT"
    /\ Len(records) = 2 * number_of_points + 1
    /\ records[Len(records)] = <<max_field, 0>>

\* C38: the orchestrator writes the temperature set-point in _start_sweep and, to
\* the safe minimum, on a tick whose _check_temp_reached returned reached (T1 in
\* the band, a full window, a stable fit), and nowhere else: a run the controller
\* stops on a tick without convergence keeps its set-point, however cold it is.
C38_OverrideOnlyWhenReached ==
    [][((variant \in TempVariants) /\ set_point' # set_point) =>
        \/ pc = "start"
        \/ /\ pc = "check"
           /\ ~FastPathReject(variant, tick_T1', temperature_end)
           /\ Len(last_temperatures) >= maximal_list_len
           /\ Stable(last_temperatures')
           /\ should_stop'
           /\ set_point' = SafeMin(variant)]_vars

\* C38 witness: a sweep to 2 K that took ticks inside the band, below the safety
\* floor, was stopped by the controller and torn down with the set-point of
\* _start_sweep still in place
C38_Witness ==
    /\ variant \in TempVariants /\ temperature_end = 2
    /\ pc = "done" /\ exit_by = "controller" /\ stop_by = "controller"
    /\ Len(last_temperatures) >= 1
    /\ set_point \in StartReadings(temperature_end)

====
